---- MODULE Spec2Model ----
(***************************************************************************)
(* Workload construction (construct_workloads.py) and the timeloop-mapper  *)
(* facade (mapper_facade.py) as a state machine over a file system.        *)
(*                                                                         *)
(* Python strings are sequences of tokens: a token is the separator ".",   *)
(* the separator "/", the separator ",", or a word (a non-empty run of     *)
(* other characters).                                                      *)
(* Two words are never adjacent, so a string has exactly one token form.   *)
(***************************************************************************)
EXTENDS Integers, Sequences, FiniteSets, TLC

VARIABLES
    facade,     \* the MapperFacade object (self)
    net,        \* the convolution layers of the network at hand
    fs,         \* the files: absolute path -> content
    dirs,       \* the directories that exist
    pc,         \* where the call is: idle, a step, or how it ended
    exc,        \* the exception a raised call ended with
    call,       \* the entry point called and its arguments
    cw,         \* the parameters construct_workloads received, and how it ended
    events,     \* templates created, files written and mapper runs, in order
    todo,       \* run_all_workloads: the workloads still to run
    hw_params,  \* run_all_workloads: the results so far
    ret         \* the value returned

vars == <<facade, net, fs, dirs, pc, exc, call, cw, events, todo, hw_params, ret>>

(***************************************************************************)
(* Bounds of the model.                                                    *)
(***************************************************************************)
MaxLayers == 2

(***************************************************************************)
(* Strings.                                                                *)
(***************************************************************************)
IsSep(t) == t \in {".", "/", ","}

\* str + str
Concat(a, b) ==
    IF a = <<>> THEN b
    ELSE IF b = <<>> THEN a
    ELSE IF IsSep(a[Len(a)]) \/ IsSep(b[1]) THEN a \o b
    ELSE SubSeq(a, 1, Len(a) - 1) \o <<a[Len(a)] \o b[1]>> \o Tail(b)

\* len(str), in characters
RECURSIVE StrLen(_)
StrLen(s) == IF s = <<>> THEN 0 ELSE Len(Head(s)) + StrLen(Tail(s))

\* str.split(sep) for a separator sep: the pieces between the separators
RECURSIVE SplitFrom(_, _, _)
SplitFrom(s, sep, cur) ==
    IF s = <<>> THEN <<cur>>
    ELSE IF Head(s) = sep THEN <<cur>> \o SplitFrom(Tail(s), sep, <<>>)
    ELSE SplitFrom(Tail(s), sep, Append(cur, Head(s)))

Split(s, sep) == SplitFrom(s, sep, <<>>)

Last(q) == q[Len(q)]

\* str.endswith(suffix), for a suffix that starts with a separator
EndsWith(s, suffix) ==
    /\ Len(s) >= Len(suffix)
    /\ SubSeq(s, Len(s) - Len(suffix) + 1, Len(s)) = suffix

StartsWith(s, prefix) ==
    /\ Len(s) >= Len(prefix)
    /\ SubSeq(s, 1, Len(prefix)) = prefix

\* workload.split("/")[-1].split(".")[0]
BaseName(path) == Split(Last(Split(path, "/")), ".")[1]

\* str(i)
Str(i) == <<ToString(i)>>

\* os.path.join(a, b)
PathJoin(a, b) ==
    IF b # <<>> /\ b[1] = "/" THEN b
    ELSE IF a = <<>> \/ Last(a) = "/" THEN Concat(a, b)
    ELSE Concat(Concat(a, <<"/">>), b)

\* the working directory of the process
Cwd == <<"/", "work">>

\* os.path.abspath(p), for a path without "." and ".." components
AbsPath(p) == IF p # <<>> /\ p[1] = "/" THEN p ELSE PathJoin(Cwd, p)

\* os.path.dirname(p)
DirName(p) ==
    LET n == CHOOSE i \in 0..Len(p) :
                 /\ i = 0 \/ p[i] = "/"
                 /\ \A j \in (i + 1)..Len(p) : p[j] # "/"
    IN IF n <= 1 THEN SubSeq(p, 1, n) ELSE SubSeq(p, 1, n - 1)

(***************************************************************************)
(* Python objects.                                                         *)
(***************************************************************************)
PyNone == [type |-> "NoneType"]
PyStr(s) == [type |-> "str", s |-> s]
PyTuple(items) == [type |-> "tuple", items |-> items]
PyList(items) == [type |-> "list", items |-> items]
PyInt(i) == [type |-> "int", i |-> i]
PyFloat(repr) == [type |-> "float", repr |-> repr]
\* a dict keeps the insertion order of its keys
PyDict(keys, val) == [type |-> "dict", keys |-> keys, val |-> val]

IsNone(o) == o.type = "NoneType"

\* len(o)
PyLen(o) ==
    CASE o.type = "str" -> StrLen(o.s)
      [] o.type \in {"tuple", "list"} -> Len(o.items)
      [] o.type = "dict" -> Len(o.keys)

\* d[k] = v on a mapping
Put(d, k, v) == [x \in (DOMAIN d) \cup {k} |-> IF x = k THEN v ELSE d[x]]

\* int(a / b) for b > 0: the quotient rounded towards zero
TruncDiv(a, b) == IF a >= 0 THEN a \div b ELSE -((-a) \div b)

\* k.lower() on the keys of a bitwidth entry
Lower(k) ==
    CASE k \in {"Inputs", "INPUTS", "inputs"} -> "inputs"
      [] k \in {"Weights", "WEIGHTS", "weights"} -> "weights"
      [] k \in {"Outputs", "OUTPUTS", "outputs"} -> "outputs"
      [] OTHER -> k

(***************************************************************************)
(* construct_workloads.py                                                  *)
(***************************************************************************)
\* os.path.dirname(os.path.abspath(construct_workloads.py))
ThisDirectory == <<"/", "work", "/", "construct_workloads">>

\* os.path.join(this_directory, "temps/sample.yaml")
ConfigAbspath == PathJoin(ThisDirectory, <<"temps", "/", "sample", ".", "yaml">>)

\* every directory os.makedirs(d) leaves in place
MakeDirs(d) ==
    {SubSeq(d, 1, i) : i \in {j \in 2..Len(d) : j = Len(d) \/ d[j + 1] = "/"}}

\* a call's result: how it ended and the file system it leaves
Outcome(how, e, f, d, ev) == [how |-> how, exc |-> e, fs |-> f, dirs |-> d, events |-> ev]

WriteEvent(p) == [ev |-> "write", path |-> p]

\* BitwidthsDict with the Weights and Outputs positions of the tuple exchanged
BitwidthsDictSwapped(bitwidth_setting, uniform_width, non_uniform_width) ==
    IF bitwidth_setting = "uniform"
    THEN [Inputs |-> uniform_width.items[1],
          Weights |-> uniform_width.items[3],
          Outputs |-> uniform_width.items[2]]
    ELSE [Inputs |-> non_uniform_width[CHOOSE x \in DOMAIN non_uniform_width : Lower(x) = "inputs"],
          Weights |-> non_uniform_width[CHOOSE x \in DOMAIN non_uniform_width : Lower(x) = "outputs"],
          Outputs |-> non_uniform_width[CHOOSE x \in DOMAIN non_uniform_width : Lower(x) = "weights"]]

\* the bitwidths entry rewrite_workload_bounds computes (lines 137-152)
BitwidthsDict(bitwidth_setting, uniform_width, non_uniform_width) ==
    IF bitwidth_setting = "uniform"
    THEN [Inputs |-> uniform_width.items[1],
          Weights |-> uniform_width.items[2],
          Outputs |-> uniform_width.items[3]]
    ELSE LET lowered == [k \in {Lower(x) : x \in DOMAIN non_uniform_width} |->
                            non_uniform_width[CHOOSE x \in DOMAIN non_uniform_width : Lower(x) = k]]
         IN [Inputs |-> lowered["inputs"],
             Weights |-> lowered["weights"],
             Outputs |-> lowered["outputs"]]

\* the document rewrite_workload_bounds writes to dst
RewrittenConfig(config, workload_bounds, bitwidth_setting, uniform_width, non_uniform_width) ==
    LET w == workload_bounds[1]
        h == workload_bounds[2]
        c == workload_bounds[3]
        n == workload_bounds[4]
        m == workload_bounds[5]
        s == workload_bounds[6]
        r == workload_bounds[7]
        wpad == workload_bounds[8]
        hpad == workload_bounds[9]
        wstride == workload_bounds[10]
        hstride == workload_bounds[11]
        q == TruncDiv(w - s + 2 * wpad, wstride) + 1
        p == TruncDiv(h - r + 2 * hpad, hstride) + 1
        i1 == Put(config.problem.instance, "R", r)
        i2 == Put(i1, "S", s)
        i3 == Put(i2, "P", p)
        i4 == Put(i3, "Q", q)
        i5 == Put(i4, "C", c)
        i6 == Put(i5, "M", m)
        i7 == Put(i6, "N", n)
        i8 == Put(i7, "Wstride", wstride)
        i9 == Put(i8, "Hstride", hstride)
        i10 == Put(i9, "Wdilation", 1)
        i11 == Put(i10, "Hdilation", 1)
        i12 == IF bitwidth_setting \in {"uniform", "non-uniform"}
               THEN Put(i11, "bitwidths",
                        BitwidthsDict(bitwidth_setting, uniform_width, non_uniform_width))
               ELSE i11
    IN [config EXCEPT !.problem.instance = i12]

\* the lower-cased keys of a bitwidth entry (line 146)
LoweredKeys(non_uniform_width) == {Lower(x) : x \in DOMAIN non_uniform_width}

\* rewrite_workload_bounds writing its result over src as well as to dst
rewrite_workload_bounds_in_place(f, d, ev, src, dst, workload_bounds, bitwidth_setting, uniform_width, non_uniform_width) ==
    IF Len(workload_bounds) # 11 THEN Outcome("raised", "ValueError", f, d, ev)
    ELSE IF workload_bounds[10] = 0 \/ workload_bounds[11] = 0
    THEN Outcome("raised", "ZeroDivisionError", f, d, ev)
    ELSE IF /\ bitwidth_setting = "non-uniform"
            /\ ~({"inputs", "weights", "outputs"} \subseteq LoweredKeys(non_uniform_width))
    THEN Outcome("raised", "KeyError", f, d, ev)
    ELSE IF DirName(dst) \notin d THEN Outcome("raised", "FileNotFoundError", f, d, ev)
    ELSE LET config == RewrittenConfig(f[src], workload_bounds, bitwidth_setting,
                                       uniform_width, non_uniform_width)
         IN Outcome("returned", "", Put(Put(f, dst, config), src, config), d,
                    Append(ev, WriteEvent(dst)))

\* rewrite_workload_bounds(src, dst, ...): reads src, writes dst
rewrite_workload_bounds(f, d, ev, src, dst, workload_bounds, bitwidth_setting, uniform_width, non_uniform_width) ==
    IF Len(workload_bounds) # 11 THEN Outcome("raised", "ValueError", f, d, ev)
    ELSE IF workload_bounds[10] = 0 \/ workload_bounds[11] = 0
    THEN Outcome("raised", "ZeroDivisionError", f, d, ev)
    ELSE IF /\ bitwidth_setting = "non-uniform"
            /\ ~({"inputs", "weights", "outputs"} \subseteq LoweredKeys(non_uniform_width))
    THEN Outcome("raised", "KeyError", f, d, ev)
    ELSE IF DirName(dst) \notin d THEN Outcome("raised", "FileNotFoundError", f, d, ev)
    ELSE Outcome("returned", "",
                 Put(f, dst, RewrittenConfig(f[src], workload_bounds, bitwidth_setting,
                                             uniform_width, non_uniform_width)),
                 d, Append(ev, WriteEvent(dst)))

\* FileName numbering the layers from 0
FileNameZeroBased(out_file, i) ==
    Concat(Concat(Concat(Concat(out_file, <<"_">>), <<"layer">>), Str(i - 1)), <<".", "yaml">>)

\* file_name = out_file + "_" + "layer" + str(i+1) + ".yaml" (i counted from 1 here)
FileName(out_file, i) ==
    Concat(Concat(Concat(Concat(out_file, <<"_">>), <<"layer">>), Str(i)), <<".", "yaml">>)

\* the loop of lines 238-244 from layer i on
RECURSIVE WriteLayers(_, _, _, _, _, _, _, _, _, _)
WriteLayers(i, layers, f, d, ev, bitwidth_setting, out_file, out_dir, uniform_width_set, non_uniform_width_set) ==
    IF i > Len(layers) THEN Outcome("returned", "", f, d, ev)
    ELSE IF out_file.type # "str" THEN Outcome("raised", "TypeError", f, d, ev)
    ELSE IF bitwidth_setting = "non-uniform" /\ i > Len(non_uniform_width_set.keys)
    THEN Outcome("raised", "IndexError", f, d, ev)
    ELSE LET file_path == AbsPath(PathJoin(out_dir.s, FileName(out_file.s, i)))
             non_uniform_width ==
                 IF bitwidth_setting = "non-uniform"
                 THEN non_uniform_width_set.val[non_uniform_width_set.keys[i]]
                 ELSE <<>>
             r == rewrite_workload_bounds(f, d, ev, ConfigAbspath, file_path, layers[i],
                                          bitwidth_setting, uniform_width_set, non_uniform_width)
         IN IF r.how # "returned" THEN r
            ELSE WriteLayers(i + 1, layers, r.fs, r.dirs, r.events, bitwidth_setting,
                             out_file, out_dir, uniform_width_set, non_uniform_width_set)

\* the checks of lines 195-203: TRUE when the call goes on
UniformCheck(bitwidth_setting, uniform_width_set) ==
    IF bitwidth_setting = "uniform" /\ IsNone(uniform_width_set) THEN FALSE
    ELSE IF bitwidth_setting # "uniform" /\ ~IsNone(uniform_width_set) THEN FALSE
    ELSE IF /\ bitwidth_setting = "uniform"
            /\ ~IsNone(uniform_width_set)
            /\ PyLen(uniform_width_set) # 3
    THEN FALSE
    ELSE TRUE

\* the checks of lines 205-213: TRUE when the call goes on
NonUniformCheck(bitwidth_setting, non_uniform_width_set) ==
    IF bitwidth_setting = "non-uniform" /\ IsNone(non_uniform_width_set) THEN FALSE
    ELSE IF bitwidth_setting # "non-uniform" /\ ~IsNone(non_uniform_width_set) THEN FALSE
    ELSE IF /\ bitwidth_setting = "non-uniform"
            /\ ~IsNone(non_uniform_width_set)
            /\ non_uniform_width_set.type # "dict"
    THEN FALSE
    ELSE TRUE

\* LayerCountCheck rejecting only a dictionary with too few entries
LayerCountCheckLoose(bitwidth_setting, non_uniform_width_set, layers) ==
    ~(bitwidth_setting = "non-uniform" /\ PyLen(non_uniform_width_set) < Len(layers))

\* the check of lines 229-231: TRUE when the call goes on
LayerCountCheck(bitwidth_setting, non_uniform_width_set, layers) ==
    ~(bitwidth_setting = "non-uniform" /\ PyLen(non_uniform_width_set) # Len(layers))

\* construct_workloads(model, bitwidth_setting, out_file, out_dir, verbose,
\*                     uniform_width_set, non_uniform_width_set)
construct_workloads(f, d, ev, model, bitwidth_setting, out_file, out_dir, verbose, uniform_width_set, non_uniform_width_set) ==
    IF model.type # "str" THEN Outcome("raised", "AttributeError", f, d, ev)
    ELSE IF ~EndsWith(model.s, <<".", "yaml">>) THEN Outcome("exited", "", f, d, ev)
    ELSE IF ~UniformCheck(bitwidth_setting, uniform_width_set)
    THEN Outcome("exited", "", f, d, ev)
    ELSE IF ~NonUniformCheck(bitwidth_setting, non_uniform_width_set)
    THEN Outcome("exited", "", f, d, ev)
    ELSE IF out_dir.type # "str" THEN Outcome("raised", "TypeError", f, d, ev)
    ELSE LET d1 == IF AbsPath(out_dir.s) \in d THEN d ELSE d \cup MakeDirs(AbsPath(out_dir.s))
         IN IF AbsPath(model.s) \notin DOMAIN f
            THEN Outcome("raised", "FileNotFoundError", f, d1, ev)
            ELSE LET layers == f[AbsPath(model.s)].layers
                 IN IF ~LayerCountCheck(bitwidth_setting, non_uniform_width_set, layers)
                    THEN Outcome("exited", "", f, d1, ev)
                    ELSE WriteLayers(1, layers, f, d1, ev, bitwidth_setting, out_file,
                                     out_dir, uniform_width_set, non_uniform_width_set)

\* int(x) for a decimal word x
IsDecimal(w) == \E i \in 0..64 : ToString(i) = w
IntOf(w) == CHOOSE i \in 0..64 : ToString(i) = w

\* an option given on the command line is <<value>>, one left out is <<>>
Given(opt) == opt # <<>>

\* the type of --uniform-width (line 55): tuple(map(int, x.split(",")))
UniformWidthType(x) ==
    LET parts == Split(x, ",")
    IN PyTuple([i \in 1..Len(parts) |-> PyInt(IntOf(parts[i][1]))])

\* parse_args(): the namespace of the options, or the way parsing ends
parse_args(f, argv) ==
    IF /\ Given(argv.u)
       /\ \E piece \in {Split(argv.u[1], ",")[i] : i \in 1..Len(Split(argv.u[1], ","))} :
              Len(piece) # 1 \/ ~IsDecimal(piece[1])
    THEN [how |-> "exited"]
    ELSE IF Given(argv.n) /\ AbsPath(argv.n[1]) \notin DOMAIN f
    THEN [how |-> "raised", exc |-> "FileNotFoundError"]
    ELSE [how |-> "returned",
          model |-> PyStr(argv.m),
          bitwidth |-> IF Given(argv.b) THEN argv.b[1] ELSE "native",
          uniform_width |-> IF Given(argv.u) THEN UniformWidthType(argv.u[1]) ELSE PyNone,
          non_uniform_width |-> IF Given(argv.n) THEN f[AbsPath(argv.n[1])] ELSE PyNone,
          outdir |-> PyStr(IF Given(argv.O) THEN argv.O[1] ELSE <<"workload_shapes">>),
          outfile |-> PyStr(IF Given(argv.o) THEN argv.o[1] ELSE <<"model">>),
          verbose |-> argv.v]

\* the parameters a call of construct_workloads receives
CwArgs(model, bitwidth_setting, out_file, out_dir, verbose, uniform_width_set, non_uniform_width_set) ==
    [called |-> TRUE, model |-> model, bitwidth_setting |-> bitwidth_setting,
     out_file |-> out_file, out_dir |-> out_dir, verbose |-> verbose,
     uniform_width_set |-> uniform_width_set,
     non_uniform_width_set |-> non_uniform_width_set]

NoCall == [called |-> FALSE]

\* the parameters of a call of construct_workloads with the way it ended
Ended(a, r) == [x \in (DOMAIN a) \cup {"how"} |-> IF x = "how" THEN r.how ELSE a[x]]

\* line 249: the positional call of the command-line entry point
MainCall(ns) ==
    CwArgs(ns.model, ns.bitwidth, ns.uniform_width, ns.non_uniform_width, ns.verbose,
           ns.outfile, ns.outdir)

\* construct_workloads on received parameters
RunConstructWorkloads(f, d, ev, a) ==
    construct_workloads(f, d, ev, a.model, a.bitwidth_setting, a.out_file, a.out_dir,
                        a.verbose, a.uniform_width_set, a.non_uniform_width_set)

(***************************************************************************)
(* Inputs.                                                                 *)
(***************************************************************************)
\* layers as create_model / parse_model describe them:
\* (w, h, c, n, m, s, r, wpad, hpad, wstride, hstride)
LayerSet == {<<8, 8, 3, 1, 4, 3, 3, 1, 1, 1, 1>>, <<8, 5, 4, 1, 2, 3, 1, 0, 1, 2, 2>>}

RECURSIVE SeqsUpTo(_, _)
SeqsUpTo(S, n) ==
    IF n = 0 THEN {<<>>}
    ELSE LET shorter == SeqsUpTo(S, n - 1)
         IN shorter \cup {Append(q, x) : q \in {r \in shorter : Len(r) = n - 1}, x \in S}

LayerSeqs == SeqsUpTo(LayerSet, MaxLayers)

\* temps/sample.yaml, with and without a bitwidths entry
TemplateInstance ==
    [C |-> 3, Hdilation |-> 1, Hstride |-> 1, M |-> 32, N |-> 1, P |-> 16, Q |-> 16,
     R |-> 3, S |-> 3, Wdilation |-> 1, Wstride |-> 1]

Templates ==
    {[problem |-> [shape |-> "cnn-layer", instance |-> TemplateInstance]],
     [problem |-> [shape |-> "cnn-layer",
                   instance |-> Put(TemplateInstance, "bitwidths",
                                    [Inputs |-> 16, Weights |-> 16, Outputs |-> 16])]]}

LayerKey(k) == "layer_" \o ToString(k)

\* the bitwidths a dictionary gives under layer_k, in the spellings the
\* lower-casing of line 146 accepts
Entry(k) ==
    IF k % 2 = 1
    THEN [Inputs |-> 8 - k, Weights |-> 4 + k, Outputs |-> 8 + k]
    ELSE [inputs |-> 8 - k, WEIGHTS |-> 4 + k, Outputs |-> 8 + k]

Perms(n) == {q \in [1..n -> 1..n] : \A i, j \in 1..n : q[i] = q[j] => i = j}

\* dictionaries with the keys layer_1 .. layer_n, in every insertion order
LayerDicts(n) ==
    {PyDict([i \in 1..n |-> LayerKey(q[i])],
            [key \in {LayerKey(k) : k \in 1..n} |->
                Entry(CHOOSE k \in 1..n : LayerKey(k) = key)]) : q \in Perms(n)}

NonUniformArgs ==
    {PyNone, PyList(<<PyInt(8), PyInt(4), PyInt(8)>>)} \cup UNION {LayerDicts(n) : n \in 0..MaxLayers}

UniformArgs ==
    {PyNone, PyTuple(<<PyInt(8), PyInt(4), PyInt(6)>>), PyTuple(<<PyInt(8), PyInt(4)>>)}

Settings == {"native", "uniform", "non-uniform"}

ParsedModels == <<"construct_workloads", "/", "parsed_models">>
ModelYaml == PathJoin(ParsedModels, <<"m", ".", "yaml">>)
ModelArgs == {ModelYaml, <<"m", ".", "h5">>, PathJoin(ParsedModels, <<"none", ".", "yaml">>)}
OutDirs == {<<"workload_shapes">>, <<"out", "/", "new">>}
OutFiles == {<<"model">>, <<"net", ".", "v2">>}
JsonFile == <<"bitwidths", ".", "json">>

Argvs ==
    [m : ModelArgs,
     b : {<<>>, <<"uniform">>, <<"non-uniform">>},
     u : {<<>>, << <<"8", ",", "4", ",", "8">> >>},
     n : {<<>>, <<JsonFile>>},
     O : {<<>>, << <<"out", "/", "new">> >>},
     o : {<<>>, << <<"net">> >>},
     v : BOOLEAN]

(***************************************************************************)
(* mapper_facade.py                                                        *)
(***************************************************************************)
\* the last component of a path
Name(p) == Last(Split(p, "/"))

\* fnmatch(name, "*.yaml") as glob applies it: hidden names are left out
MatchesYaml(name) == name # <<>> /\ name[1] # "." /\ EndsWith(name, <<".", "yaml">>)

\* fnmatch(name, "*.log") as glob applies it
MatchesLog(name) == name # <<>> /\ name[1] # "." /\ EndsWith(name, <<".", "log">>)

\* glob.glob(f"{dir}/*.yaml") over the files `paths`: the matches, unordered
GlobYaml(paths, dir) ==
    LET prefix == AbsPath(dir) \o <<"/">>
    IN {PathJoin(dir, Name(p)) :
           p \in {x \in paths : StartsWith(x, prefix) /\ DirName(x) = AbsPath(dir)
                                  /\ MatchesYaml(Name(x))}}

\* glob.glob('./*.log') over the files `paths`
GlobLog(paths) == {x \in paths : DirName(x) = Cwd /\ MatchesLog(Name(x))}

\* the orders in which glob may list a set of paths
Orders(S) ==
    {q \in [1..Cardinality(S) -> S] : \A i, j \in 1..Cardinality(S) : q[i] = q[j] => i = j}

\* the files of the timeloop_configs tree, which no operation writes
ConfigsPath == <<"timeloop_configs">>
ArchDir == PathJoin(PathJoin(ConfigsPath, <<"architectures">>), <<"eyeriss">>)
HeuristicsDir == PathJoin(ConfigsPath, <<"mapper_heuristics">>)

ConfigTree ==
    {AbsPath(PathJoin(ArchDir, <<"eyeriss_like", ".", "yaml">>)),
     AbsPath(PathJoin(PathJoin(ArchDir, <<"components">>), <<"smartbuffer_RF", ".", "yaml">>)),
     AbsPath(PathJoin(PathJoin(ArchDir, <<"components">>), <<"intmac", ".", "yaml">>)),
     AbsPath(PathJoin(PathJoin(ArchDir, <<"constraints">>), <<"eyeriss_like_arch_constraints", ".", "yaml">>)),
     AbsPath(PathJoin(PathJoin(PathJoin(HeuristicsDir, <<"all_threads">>), <<"random">>),
                      <<"energy-delay", ".", "yaml">>)),
     AbsPath(PathJoin(PathJoin(PathJoin(HeuristicsDir, <<"all_threads">>), <<"random">>),
                      <<"edp", ".", "yaml">>))}

\* a list of str from a set of paths, in the order glob gave
StrList(S) == PyList([i \in 1..Cardinality(S) |-> PyStr((CHOOSE q \in Orders(S) : TRUE)[i])])

\* MapperFacade.__init__ with its default arguments
MapperFacadeInit ==
    [configs_path |-> ConfigsPath,
     arch |-> PyStr(CHOOSE x \in GlobYaml(ConfigTree, ArchDir) : TRUE),
     components |-> StrList(GlobYaml(ConfigTree, PathJoin(ArchDir, <<"components">>))),
     constraints |-> StrList(GlobYaml(ConfigTree, PathJoin(ArchDir, <<"constraints">>))),
     mode |-> PyStr(<<"timeloop-mapper">>)]

\* a + b on Python objects; a TypeError is an object of its own here
PyAdd(a, b) ==
    IF a.type = "TypeError" THEN a
    ELSE IF a.type = "str" /\ b.type = "str" THEN PyStr(Concat(a.s, b.s))
    ELSE IF a.type = "list" /\ b.type = "list" THEN PyList(a.items \o b.items)
    ELSE [type |-> "TypeError"]

\* acc + a1 + a2 + ... + an, evaluated from the left
RECURSIVE AddFrom(_, _)
AddFrom(acc, operands) ==
    IF operands = <<>> THEN acc
    ELSE LET sum == PyAdd(acc, Head(operands))
         IN IF sum.type = "TypeError" THEN sum ELSE AddFrom(sum, Tail(operands))

AddAll(operands) == AddFrom(Head(operands), Tail(operands))

\* the argument of print in lines 64 and 68
PrintedCommand(self, mapper, workload) ==
    AddAll(<<self.mode, PyStr(<<" ">>), self.arch, PyStr(<<" ">>), self.components,
             PyStr(<<" ">>), self.constraints, PyStr(<<" ">>), PyStr(mapper), PyStr(<<" ">>),
             PyStr(workload), PyStr(<<" -o tmp_outputs">>)>>)

\* line 54
MetricFname(metrics) ==
    IF metrics[1] = "edp" THEN "edp" ELSE (metrics[1] \o "-") \o metrics[2]

\* the endings a configuration name has after the metric's name
NameEndings == {"", "_fast"}

\* line 55: glob of {metric_fname}*.yaml in the heuristic's directory
MapperGlob(self, threads, heuristic, metrics) ==
    LET dir == PathJoin(PathJoin(PathJoin(self.configs_path, <<"mapper_heuristics">>),
                                 <<threads \o "_threads">>), <<heuristic>>)
    IN {x \in GlobYaml(ConfigTree, dir) :
           \E e \in NameEndings : Name(x)[1] = MetricFname(metrics) \o e}

TmpOutputs == AbsPath(<<"tmp_outputs">>)

\* f"tmp_outputs/{self.mode}.stats.csv"
StatsCsv(self) ==
    AbsPath(Concat(Concat(<<"tmp_outputs", "/">>, self.mode.s), <<".", "stats", ".", "csv">>))

Under(p, dir) == StartsWith(p, dir \o <<"/">>)

\* the mapping f without the paths in gone
Remove(f, gone) == [x \in (DOMAIN f) \ gone |-> f[x]]

\* {**a, **b}
Merge(a, b) == [x \in (DOMAIN a) \cup (DOMAIN b) |-> IF x \in DOMAIN b THEN b[x] ELSE a[x]]

InvokeEvent(p) == [ev |-> "invoke", path |-> p]

\* a call's result with its return value
Result(how, e, f, d, ev, r) ==
    [how |-> how, exc |-> e, fs |-> f, dirs |-> d, events |-> ev, ret |-> r]

\* what subprocess.run of timeloop-mapper leaves: the statistics and a log
AfterMapper(f, self, tool) ==
    Put(Put(f, StatsCsv(self), [rows |-> tool.rows]),
        AbsPath(<<"timeloop-mapper", ".", "log">>), [log |-> "timeloop-mapper"])

\* lines 72-85: read the statistics, clean up, build the returned dictionary
ReadAndReturn(f, d, ev, self, workload, metrics, clean, tool) ==
    IF StatsCsv(self) \notin DOMAIN f THEN Result("raised", "FileNotFoundError", f, d, ev, PyNone)
    ELSE IF f[StatsCsv(self)].rows = <<>> THEN Result("raised", "StopIteration", f, d, ev, PyNone)
    ELSE LET result_dict == f[StatsCsv(self)].rows[1]
             gone == {x \in DOMAIN f : Under(x, TmpOutputs)} \cup GlobLog(DOMAIN f)
             f1 == IF clean THEN Remove(f, gone) ELSE f
             d1 == IF clean THEN {x \in d : x # TmpOutputs /\ ~Under(x, TmpOutputs)} ELSE d
             head == [Workload |-> BaseName(workload),
                      Optimized_metric_1 |-> metrics[1],
                      Optimized_metric_2 |-> metrics[2]]
         IN Result("returned", "", f1, d1, ev,
                   Put(Merge(head, result_dict), "Runtime [s]", tool.runtime))

\* run_one_workload(workload, threads, heuristic, metrics, verbose, clean);
\* tool is what the external timeloop-mapper does when it is run
run_one_workload(f, d, ev, self, workload, threads, heuristic, metrics, verbose, clean, tool) ==
    IF MapperGlob(self, threads, heuristic, metrics) = {}
    THEN Result("raised", "IndexError", f, d, ev, PyNone)
    ELSE LET mapper == CHOOSE x \in MapperGlob(self, threads, heuristic, metrics) : TRUE
             d1 == IF TmpOutputs \in d THEN d ELSE d \cup MakeDirs(TmpOutputs)
         IN IF PrintedCommand(self, mapper, workload).type = "TypeError"
            THEN Result("raised", "TypeError", f, d1, ev, PyNone)
            ELSE IF ~tool.ok
            THEN Result("raised", "CalledProcessError", f, d1,
                        Append(ev, InvokeEvent(workload)), PyNone)
            ELSE ReadAndReturn(AfterMapper(f, self, tool), d1,
                               Append(ev, InvokeEvent(workload)), self, workload,
                               metrics, clean, tool)

\* BitwidthsDispatch taking every tuple for uniform bitwidths
BitwidthsDispatchAnyTuple(bitwidths) ==
    IF IsNone(bitwidths)
    THEN [go |-> TRUE, bitwidth_setting |-> "native", uniform_width_set |-> PyNone,
          non_uniform_width_set |-> PyNone]
    ELSE IF bitwidths.type = "dict"
    THEN [go |-> TRUE, bitwidth_setting |-> "non-uniform", uniform_width_set |-> PyNone,
          non_uniform_width_set |-> bitwidths]
    ELSE IF bitwidths.type = "tuple"
    THEN [go |-> TRUE, bitwidth_setting |-> "uniform", uniform_width_set |-> bitwidths,
          non_uniform_width_set |-> PyNone]
    ELSE [go |-> FALSE]

\* lines 161-169 and 220-228: the arguments construct_workloads gets for a
\* bitwidths object, or go = FALSE when the object is refused
BitwidthsDispatch(bitwidths) ==
    IF IsNone(bitwidths)
    THEN [go |-> TRUE, bitwidth_setting |-> "native", uniform_width_set |-> PyNone,
          non_uniform_width_set |-> PyNone]
    ELSE IF bitwidths.type = "dict"
    THEN [go |-> TRUE, bitwidth_setting |-> "non-uniform", uniform_width_set |-> PyNone,
          non_uniform_width_set |-> bitwidths]
    ELSE IF /\ bitwidths.type = "tuple"
            /\ Len(bitwidths.items) = 3
            /\ \A i \in 1..Len(bitwidths.items) : bitwidths.items[i].type = "int"
    THEN [go |-> TRUE, bitwidth_setting |-> "uniform", uniform_width_set |-> bitwidths,
          non_uniform_width_set |-> PyNone]
    ELSE [go |-> FALSE]

\* f"construct_workloads/parsed_models/{model.split('/')[-1].split('.')[0]}.yaml"
YamlModel(model) == PathJoin(ParsedModels, Concat(BaseName(model), <<".", "yaml">>))

\* f"{self.configs_path}/workload_shapes/{timestamp}"
WorkloadsLocation(self, timestamp) ==
    PathJoin(PathJoin(self.configs_path, <<"workload_shapes">>), <<timestamp>>)

\* model.split("/")[-1].split(".")[-1]
Extension(model) == Last(Split(Name(model), "."))

\* lines 201-207: the API a model file's extension stands for, "" for none
ApiOfExtension(model) ==
    IF Extension(model) = <<"h5">> \/ Extension(model) = <<"keras">> THEN "keras"
    ELSE IF Extension(model) = <<"pt">> \/ Extension(model) = <<"pth">> THEN "pytorch"
    ELSE ""

TemplateEvent(p) == [ev |-> "template", path |-> p]

(***************************************************************************)
(* Inputs of the facade.                                                   *)
(***************************************************************************)
Timestamps == {"2024-05-01_10-00-00", "2024-05-01_10-00-01"}

\* a workload folder left by an earlier call
OldFolder == PathJoin(PathJoin(ConfigsPath, <<"workload_shapes">>), <<"2024-05-01_10-00-00">>)
OldWorkload == PathJoin(OldFolder, <<"resnet18_layer1", ".", "yaml">>)

FolderArgs == {OldFolder, <<"nowhere">>}
WorkloadArgs == {OldWorkload}
Heuristics == {"random", "linear"}
MetricsArgs == {<<"energy", "delay">>, <<"edp", "">>}

StatsRow == [Energy |-> "12.5", Cycles |-> "340", Area |-> "1.2"]

ToolOutcomes ==
    {[ok |-> TRUE, rows |-> <<StatsRow>>, runtime |-> "1.50"],
     [ok |-> FALSE, rows |-> <<>>, runtime |-> "0.10"]}

BitwidthsArgs ==
    {PyNone,
     PyTuple(<<PyInt(8), PyInt(4), PyInt(6)>>),
     PyTuple(<<PyInt(8), PyInt(4)>>),
     PyTuple(<<PyInt(8), PyFloat("4.5"), PyInt(6)>>),
     PyList(<<PyInt(8), PyInt(4), PyInt(6)>>)}
        \cup UNION {LayerDicts(n) : n \in 0..MaxLayers}

ApiChoices == {"keras", "pytorch", "tensorflow"}
CreateModelArgs == {<<"alexnet">>}
ParseModelArgs ==
    {<<"nets", "/", "m", ".", "keras">>, <<"nets", "/", "m", ".", "pth">>,
     <<"nets", "/", "m", ".", "onnx">>, <<"nets", "/", "gone", ".", "h5">>}

(***************************************************************************)
(* The state machine: one call of an entry point per behaviour.            *)
(***************************************************************************)
InitDirs ==
    MakeDirs(ThisDirectory) \cup MakeDirs(DirName(ConfigAbspath))
        \cup MakeDirs(DirName(AbsPath(ModelYaml))) \cup MakeDirs(AbsPath(<<"nets">>))

\* the files every run starts with: the template, the description of the
\* network, a bitwidths file and the saved models
BaseFiles(template, layers) ==
    LET f1 == Put(<<>>, ConfigAbspath, template)
        f2 == Put(f1, AbsPath(ModelYaml), [layers |-> layers])
        f3 == Put(f2, AbsPath(JsonFile),
                  CHOOSE x \in LayerDicts(MaxLayers) : \A i \in 1..MaxLayers : x.keys[i] = LayerKey(i))
        f4 == Put(f3, AbsPath(<<"nets", "/", "m", ".", "keras">>), [saved |-> "keras"])
        f5 == Put(f4, AbsPath(<<"nets", "/", "m", ".", "pth">>), [saved |-> "pytorch"])
    IN Put(f5, AbsPath(<<"nets", "/", "m", ".", "onnx">>), [saved |-> "onnx"])

\* what an earlier call may have left: a workload folder, the mapper's
\* output directory and a log
LeftOver(f) ==
    LET f1 == Put(f, AbsPath(OldWorkload),
                  RewrittenConfig(f[ConfigAbspath], CHOOSE l \in LayerSet : TRUE, "native", PyNone, <<>>))
        f2 == Put(f1, AbsPath(PathJoin(OldFolder, <<"notes", ".", "txt">>)), [text |-> "notes"])
        f3 == Put(f2, StatsCsv(MapperFacadeInit), [rows |-> <<[Energy |-> "99.0", Cycles |-> "7", Area |-> "1.2"]>>])
    IN Put(f3, AbsPath(<<"old", ".", "log">>), [log |-> "old"])

Init ==
    /\ facade = MapperFacadeInit
    /\ net \in LayerSeqs
    /\ \E template \in Templates, leftover \in BOOLEAN :
           /\ fs = IF leftover THEN LeftOver(BaseFiles(template, net))
                   ELSE BaseFiles(template, net)
           /\ dirs = IF leftover
                     THEN InitDirs \cup MakeDirs(AbsPath(OldFolder)) \cup MakeDirs(TmpOutputs)
                     ELSE InitDirs
    /\ pc = "idle"
    /\ exc = ""
    /\ call = [op |-> "none"]
    /\ cw = NoCall
    /\ events = <<>>
    /\ todo = <<>>
    /\ hw_params = <<>>
    /\ ret = PyNone

\* the state a finished call leaves
Finish(r) ==
    /\ fs' = r.fs
    /\ dirs' = r.dirs
    /\ events' = r.events
    /\ pc' = r.how
    /\ exc' = r.exc

\* a direct call of construct_workloads
CallConstructWorkloads ==
    /\ pc = "idle"
    /\ \E model \in ModelArgs, bitwidth_setting \in Settings, out_file \in OutFiles,
          out_dir \in OutDirs, verbose \in BOOLEAN, uniform_width_set \in UniformArgs,
          non_uniform_width_set \in NonUniformArgs :
           \E a \in {CwArgs(PyStr(model), bitwidth_setting, PyStr(out_file), PyStr(out_dir),
                             verbose, uniform_width_set, non_uniform_width_set)} :
           \E r \in {RunConstructWorkloads(fs, dirs, events, a)} :
              /\ call' = [op |-> "construct_workloads"]
              /\ cw' = Ended(a, r)
              /\ Finish(r)
    /\ UNCHANGED <<facade, net, todo, hw_params, ret>>

\* python construct_workloads.py <options> (lines 247-249)
Main ==
    /\ pc = "idle"
    /\ \E argv \in Argvs :
           \E ns \in {parse_args(fs, argv)} :
              /\ call' = [op |-> "main", argv |-> argv]
              /\ IF ns.how = "returned"
                 THEN \E r \in {RunConstructWorkloads(fs, dirs, events, MainCall(ns))} :
                         /\ cw' = Ended(MainCall(ns), r)
                         /\ Finish(r)
                 ELSE /\ cw' = NoCall
                      /\ pc' = ns.how
                      /\ exc' = IF ns.how = "raised" THEN ns.exc ELSE ""
                      /\ UNCHANGED <<fs, dirs, events>>
    /\ UNCHANGED <<facade, net, todo, hw_params, ret>>

\* the arguments the facade's methods hand on to run_one_workload
MapperArgs(op, threads, heuristic, metrics, verbose, clean) ==
    [op |-> op, threads |-> threads, heuristic |-> heuristic, metrics |-> metrics,
     verbose |-> verbose, clean |-> clean]

With(r, k, v) == [x \in (DOMAIN r) \cup {k} |-> IF x = k THEN v ELSE r[x]]

\* a direct call of run_one_workload
CallRunOneWorkload ==
    /\ pc = "idle"
    /\ \E workload \in WorkloadArgs, heuristic \in Heuristics, metrics \in MetricsArgs,
          verbose \in BOOLEAN, clean \in BOOLEAN, tool \in ToolOutcomes :
           \E r \in {run_one_workload(fs, dirs, events, facade, workload, "all", heuristic,
                                      metrics, verbose, clean, tool)} :
              /\ call' = With(With(MapperArgs("run_one_workload", "all", heuristic, metrics,
                                              verbose, clean), "workload", workload),
                              "tool", tool)
              /\ ret' = r.ret
              /\ Finish(r)
    /\ UNCHANGED <<facade, net, cw, todo, hw_params>>

\* run_all_workloads, lines 102-103: list the folder
CallRunAllWorkloads ==
    /\ pc = "idle"
    /\ \E workloads \in FolderArgs, heuristic \in Heuristics, metrics \in MetricsArgs,
          verbose \in BOOLEAN, clean \in BOOLEAN :
           /\ call' = With(MapperArgs("run_all_workloads", "all", heuristic, metrics,
                                      verbose, clean), "workloads", workloads)
           /\ todo' \in Orders(GlobYaml(DOMAIN fs, workloads))
    /\ hw_params' = <<>>
    /\ pc' = "run_all"
    /\ UNCHANGED <<facade, net, fs, dirs, exc, cw, events, ret>>

\* run_all_workloads, lines 106-108: one turn of the loop
RunAllStep ==
    /\ pc = "run_all"
    /\ todo # <<>>
    /\ \E tool \in ToolOutcomes :
           \E r \in {run_one_workload(fs, dirs, events, facade, Head(todo), call.threads,
                                      call.heuristic, call.metrics, call.verbose,
                                      call.clean, tool)} :
              /\ fs' = r.fs
              /\ dirs' = r.dirs
              /\ events' = r.events
              /\ exc' = r.exc
              /\ IF r.how = "returned"
                 THEN /\ hw_params' = Put(hw_params, BaseName(Head(todo)), r.ret)
                      /\ todo' = Tail(todo)
                      /\ pc' = "run_all"
                 ELSE /\ pc' = r.how
                      /\ UNCHANGED <<hw_params, todo>>
    /\ UNCHANGED <<facade, net, call, cw, ret>>

\* run_all_workloads, line 111
RunAllReturn ==
    /\ pc = "run_all"
    /\ todo = <<>>
    /\ ret' = hw_params
    /\ pc' = "returned"
    /\ UNCHANGED <<facade, net, fs, dirs, exc, call, cw, events, todo, hw_params>>

\* what create_*_model and parse_*_model leave: the description of the
\* network's layers in construct_workloads/parsed_models
WriteTemplate(model) ==
    /\ fs' = Put(fs, AbsPath(YamlModel(model)), [layers |-> net])
    /\ dirs' = dirs \cup MakeDirs(AbsPath(ParsedModels))
    /\ events' = Append(events, TemplateEvent(AbsPath(YamlModel(model))))
    /\ pc' = "gh_construct"
    /\ exc' = ""

\* ApiAccepted taking every name for an API
ApiAcceptedAny(api_choice) == TRUE

\* lines 149-154: the API names get_hw_params_create_model has a branch for
ApiAccepted(api_choice) == api_choice = "keras" \/ api_choice = "pytorch"

\* get_hw_params_create_model, lines 146-154
GetHwParamsCreateModel ==
    /\ pc = "idle"
    /\ \E api_choice \in ApiChoices, model \in CreateModelArgs, bitwidths \in BitwidthsArgs,
          verbose \in BOOLEAN, clean \in BOOLEAN :
           /\ call' = With(With(With(MapperArgs("get_hw_params_create_model", "all", "random",
                                                <<"energy", "delay">>, verbose, clean),
                                     "api_choice", api_choice), "model", model),
                           "bitwidths", bitwidths)
           /\ IF ApiAccepted(api_choice)
              THEN WriteTemplate(model)
              ELSE /\ pc' = "raised"
                   /\ exc' = "ValueError"
                   /\ UNCHANGED <<fs, dirs, events>>
    /\ UNCHANGED <<facade, net, cw, todo, hw_params, ret>>

\* get_hw_params_parse_model, lines 197-213
GetHwParamsParseModel ==
    /\ pc = "idle"
    /\ \E model \in ParseModelArgs, bitwidths \in BitwidthsArgs,
          verbose \in BOOLEAN, clean \in BOOLEAN :
           /\ call' = With(With(With(MapperArgs("get_hw_params_parse_model", "all", "random",
                                                <<"energy", "delay">>, verbose, clean),
                                     "api_choice", ApiOfExtension(model)), "model", model),
                           "bitwidths", bitwidths)
           /\ IF AbsPath(model) \notin DOMAIN fs
              THEN /\ pc' = "raised"
                   /\ exc' = "FileNotFoundError"
                   /\ UNCHANGED <<fs, dirs, events>>
              ELSE IF ApiOfExtension(model) = ""
              THEN /\ pc' = "exited"
                   /\ exc' = ""
                   /\ UNCHANGED <<fs, dirs, events>>
              ELSE WriteTemplate(model)
    /\ UNCHANGED <<facade, net, cw, todo, hw_params, ret>>

\* lines 157-172 and 216-231: build the workloads, then list their folder
GetHwParamsConstruct ==
    /\ pc = "gh_construct"
    /\ \E timestamp \in Timestamps :
       \E workloads_location \in {WorkloadsLocation(facade, timestamp)} :
       \E b \in {BitwidthsDispatch(call.bitwidths)} :
           /\ call' = With(call, "workloads", workloads_location)
           /\ IF ~b.go
              THEN /\ pc' = "exited"
                   /\ UNCHANGED <<fs, dirs, events, exc, cw, todo>>
              ELSE \E a \in {CwArgs(PyStr(YamlModel(call.model)), b.bitwidth_setting,
                                    PyStr(BaseName(call.model)), PyStr(workloads_location),
                                    call.verbose, b.uniform_width_set,
                                    b.non_uniform_width_set)} :
                   \E r \in {RunConstructWorkloads(fs, dirs, events, a)} :
                      /\ cw' = Ended(a, r)
                      /\ fs' = r.fs
                      /\ dirs' = r.dirs
                      /\ events' = r.events
                      /\ exc' = r.exc
                      /\ IF r.how = "returned"
                         THEN /\ pc' = "run_all"
                              /\ todo' \in Orders(GlobYaml(DOMAIN r.fs, workloads_location))
                         ELSE /\ pc' = r.how
                              /\ todo' = todo
    /\ hw_params' = <<>>
    /\ UNCHANGED <<facade, net, ret>>

(***************************************************************************)
(* quant_conv2D_batch_layer.py: the weights a call of the layer convolves   *)
(* with, as the operations applied to the kernel, first to last.           *)
(***************************************************************************)
Kernel == <<>>

\* self._get_folded_weights(std_dev, kernel)
get_folded_weights(kernel) == Append(kernel, "fold")

\* self.weights_quantizer.__call__(folded_weights, training, weights)
Quantizer(folded_weights) == Append(folded_weights, "quantize")

\* self._apply_quantizer_if_defined(training, folded_weights)
apply_quantizer_if_defined(has_quantizer, folded_weights) ==
    IF has_quantizer THEN Quantizer(folded_weights) ELSE folded_weights

\* ConvolvedWeights folding before the quantizer on the frozen per-channel path
ConvolvedWeightsFoldFirst(training, per_channel, frozen, has_quantizer) ==
    IF ~training
    THEN IF ~per_channel
         THEN apply_quantizer_if_defined(has_quantizer, get_folded_weights(Kernel))
         ELSE get_folded_weights(apply_quantizer_if_defined(has_quantizer, Kernel))
    ELSE LET start == IF ~per_channel \/ frozen THEN get_folded_weights(Kernel) ELSE Kernel
         IN IF has_quantizer THEN Quantizer(start) ELSE start

\* lines 45-55 and 68-84: the folded_weights given to convolution_op
ConvolvedWeights(training, per_channel, frozen, has_quantizer) ==
    IF ~training
    THEN IF ~per_channel
         THEN apply_quantizer_if_defined(has_quantizer, get_folded_weights(Kernel))
         ELSE get_folded_weights(apply_quantizer_if_defined(has_quantizer, Kernel))
    ELSE LET start == IF ~per_channel THEN get_folded_weights(Kernel) ELSE Kernel
             quantized == IF has_quantizer THEN Quantizer(start) ELSE start
         IN IF frozen /\ per_channel THEN get_folded_weights(quantized) ELSE quantized

\* a call of the layer: training is the argument or the learning phase,
\* frozen is is_frozen(), has_quantizer is weights_quantizer is not None
CallLayer ==
    /\ pc = "idle"
    /\ \E training \in BOOLEAN, per_channel \in BOOLEAN, frozen \in BOOLEAN,
          has_quantizer \in BOOLEAN, use_bias \in BOOLEAN :
           /\ call' = [op |-> "layer_call", training |-> training, per_channel |-> per_channel,
                       frozen |-> frozen, has_quantizer |-> has_quantizer,
                       use_bias |-> use_bias]
           /\ ret' = [weights |-> ConvolvedWeights(training, per_channel, frozen, has_quantizer),
                      folded_bias |-> ~training \/ frozen]
    /\ pc' = "returned"
    /\ UNCHANGED <<facade, net, fs, dirs, exc, cw, events, todo, hw_params>>

Next ==
    \/ CallLayer
    \/ CallConstructWorkloads
    \/ Main
    \/ CallRunOneWorkload
    \/ CallRunAllWorkloads
    \/ RunAllStep
    \/ RunAllReturn
    \/ GetHwParamsCreateModel
    \/ GetHwParamsParseModel
    \/ GetHwParamsConstruct

Spec == Init /\ [][Next]_vars

(***************************************************************************)
(* Properties.                                                             *)
(***************************************************************************)
IsWrite(e) == e.ev = "write"

\* the workload files written so far, in the order of writing
Written == SelectSeq(events, IsWrite)

\* the layers of the model description a call of construct_workloads names
LayersOf(a) == fs[AbsPath(a.model.s)].layers

ModelExists(a) == AbsPath(a.model.s) \in DOMAIN fs

\* <out_dir>/<out_file>_layer<i>.yaml
ExpectedPath(a, i) ==
    AbsPath(PathJoin(a.out_dir.s,
                     Concat(a.out_file.s, <<"_layer" \o ToString(i), ".", "yaml">>)))

\* the file holds the dimensions of the layer
CarriesLayer(doc, layer) ==
    LET inst == doc.problem.instance
    IN /\ inst["C"] = layer[3] /\ inst["N"] = layer[4] /\ inst["M"] = layer[5]
       /\ inst["S"] = layer[6] /\ inst["R"] = layer[7]
       /\ inst["Wstride"] = layer[10] /\ inst["Hstride"] = layer[11]

\* the cases in which construct_workloads refuses its arguments
Rejected(a) ==
    \/ ~EndsWith(a.model.s, <<".", "yaml">>)
    \/ a.bitwidth_setting = "uniform" /\ IsNone(a.uniform_width_set)
    \/ ~IsNone(a.uniform_width_set) /\ a.bitwidth_setting # "uniform"
    \/ /\ a.bitwidth_setting = "uniform"
       /\ ~IsNone(a.uniform_width_set)
       /\ PyLen(a.uniform_width_set) # 3
    \/ a.bitwidth_setting = "non-uniform" /\ IsNone(a.non_uniform_width_set)
    \/ ~IsNone(a.non_uniform_width_set) /\ a.bitwidth_setting # "non-uniform"
    \/ /\ a.bitwidth_setting = "non-uniform"
       /\ ~IsNone(a.non_uniform_width_set)
       /\ a.non_uniform_width_set.type # "dict"
    \/ /\ a.bitwidth_setting = "non-uniform"
       /\ a.non_uniform_width_set.type = "dict"
       /\ ModelExists(a)
       /\ PyLen(a.non_uniform_width_set) # Len(LayersOf(a))

\* C2: a call of construct_workloads whose arguments pass validation, on a
\* model description with N layers, returns having written exactly the N
\* files <out_dir>/<out_file>_layer<i>.yaml, i = 1..N, in model order, file i
\* holding the dimensions of layer i, and no other file.
C2_OneFilePerLayer ==
    (cw.called /\ ModelExists(cw) /\ ~Rejected(cw)) =>
        /\ cw.how = "returned"
        /\ Len(Written) = Len(LayersOf(cw))
        /\ \A i \in 1..Len(LayersOf(cw)) :
               /\ Written[i].path = ExpectedPath(cw, i)
               /\ CarriesLayer(fs[ExpectedPath(cw, i)], LayersOf(cw)[i])

\* a validated call on a model of two different layers has written its files
C2_Witness ==
    /\ cw.called /\ ModelExists(cw) /\ ~Rejected(cw)
    /\ Len(LayersOf(cw)) = 2
    /\ LayersOf(cw)[1] # LayersOf(cw)[2]
    /\ Len(Written) = 2

\* the bitwidths entry of a written file, <<>> when the file has none
BitwidthsOf(doc) ==
    IF "bitwidths" \in DOMAIN doc.problem.instance
    THEN <<doc.problem.instance["bitwidths"]>>
    ELSE <<>>

\* C3: with 'uniform' and the tuple (a, b, c) every written file has the
\* bitwidths {Inputs: a, Weights: b, Outputs: c}; with 'native' every written
\* file has the bitwidths entry of the template sample.yaml, or none when the
\* template has none.
C3_BitwidthSetting ==
    (cw.called /\ cw.how = "returned") =>
        \A i \in 1..Len(Written) :
            /\ cw.bitwidth_setting = "uniform" =>
                   BitwidthsOf(fs[Written[i].path]) =
                       <<[Inputs |-> cw.uniform_width_set.items[1],
                          Weights |-> cw.uniform_width_set.items[2],
                          Outputs |-> cw.uniform_width_set.items[3]]>>
            /\ cw.bitwidth_setting = "native" =>
                   BitwidthsOf(fs[Written[i].path]) = BitwidthsOf(fs[ConfigAbspath])

\* a uniform call has written the files of two layers
C3_Witness ==
    /\ cw.called /\ cw.how = "returned"
    /\ cw.bitwidth_setting = "uniform"
    /\ Len(Written) = 2

\* the value an entry gives under a key, whatever the key's letter case
EntryValue(entry, key) == entry[CHOOSE x \in DOMAIN entry : Lower(x) = key]

\* C4: with 'non-uniform' and a dictionary with the keys layer_1 .. layer_N in
\* any key order, the file written for layer k has the Inputs, Weights and
\* Outputs bitwidths the dictionary gives under layer_k.
C4_BitwidthsByLayerKey ==
    (/\ cw.called /\ ModelExists(cw) /\ ~Rejected(cw)
     /\ cw.bitwidth_setting = "non-uniform"
     /\ DOMAIN cw.non_uniform_width_set.val = {LayerKey(k) : k \in 1..Len(LayersOf(cw))}) =>
        /\ Len(Written) = Len(LayersOf(cw))
        /\ \A k \in 1..Len(LayersOf(cw)) :
               LET entry == cw.non_uniform_width_set.val[LayerKey(k)]
               IN BitwidthsOf(fs[ExpectedPath(cw, k)]) =
                      <<[Inputs |-> EntryValue(entry, "inputs"),
                         Weights |-> EntryValue(entry, "weights"),
                         Outputs |-> EntryValue(entry, "outputs")]>>

\* C5: in each of the refused cases construct_workloads ends by leaving the
\* program, having written no workload file.
C5_RejectedWritesNothing ==
    (cw.called /\ Rejected(cw)) => (cw.how = "exited" /\ Written = <<>>)

\* a non-uniform call whose dictionary has another size than the model has
\* layers has ended, its output directory already created
C5_Witness ==
    /\ cw.called
    /\ cw.bitwidth_setting = "non-uniform"
    /\ cw.non_uniform_width_set.type = "dict"
    /\ ModelExists(cw)
    /\ PyLen(cw.non_uniform_width_set) > Len(LayersOf(cw))
    /\ Len(LayersOf(cw)) > 0
    /\ cw.out_dir.type = "str"
    /\ AbsPath(cw.out_dir.s) \in dirs

\* the value of an option, or its default
OptionOr(opt, default) == IF Given(opt) THEN opt[1] ELSE default

\* C6: a command-line run passes each option to the parameter of
\* construct_workloads of the same meaning, and a run with only -m <model.yaml>
\* writes one workload file per layer into the directory workload_shapes.
C6_OptionsReachParameters ==
    (call.op = "main" /\ cw.called) =>
        /\ cw.model = PyStr(call.argv.m)
        /\ cw.bitwidth_setting = OptionOr(call.argv.b, "native")
        /\ cw.verbose = call.argv.v
        /\ cw.out_dir.type = "str"
        /\ cw.out_dir.s = OptionOr(call.argv.O, <<"workload_shapes">>)
        /\ cw.out_file.type = "str"
        /\ cw.out_file.s = OptionOr(call.argv.o, <<"model">>)
        /\ cw.uniform_width_set.type = (IF Given(call.argv.u) THEN "tuple" ELSE "NoneType")
        /\ cw.non_uniform_width_set.type = (IF Given(call.argv.n) THEN "dict" ELSE "NoneType")
        /\ (/\ call.argv = [m |-> ModelYaml, b |-> <<>>, u |-> <<>>, n |-> <<>>,
                            O |-> <<>>, o |-> <<>>, v |-> FALSE]) =>
               /\ Len(Written) = Len(LayersOf(cw))
               /\ \A i \in 1..Len(Written) :
                      DirName(Written[i].path) = AbsPath(<<"workload_shapes">>)

\* the call has ended: it returned, raised, or left the program
Over == pc \in {"returned", "raised", "exited"}

IsInvoke(e) == e.ev = "invoke"

\* the timeloop-mapper runs so far, in order
Invoked == SelectSeq(events, IsInvoke)

\* the *.yaml files of the folder a facade call works on
FolderFiles == GlobYaml(DOMAIN fs, call.workloads)

\* C1: run_all_workloads on a folder of N *.yaml files runs timeloop-mapper
\* exactly once for each of them and for no other file, and returns a
\* dictionary of exactly N entries keyed by the files' base names (for a
\* mapper configuration that exists and timeloop-mapper runs that succeed).
C1_OncePerWorkload ==
    (/\ call.op = "run_all_workloads"
     /\ Over
     /\ MapperGlob(facade, call.threads, call.heuristic, call.metrics) # {}
     /\ exc # "CalledProcessError") =>
        /\ pc = "returned"
        /\ Len(Invoked) = Cardinality(FolderFiles)
        /\ {Invoked[i].path : i \in 1..Len(Invoked)} = FolderFiles
        /\ DOMAIN ret = {BaseName(w) : w \in FolderFiles}
        /\ Cardinality(DOMAIN ret) = Cardinality(FolderFiles)

GhOps == {"get_hw_params_create_model", "get_hw_params_parse_model"}

\* a get_hw_params_* call has created its template and passed the choice of
\* the bitwidth setting
Dispatched ==
    /\ call.op \in GhOps
    /\ pc \notin {"idle", "gh_construct"}
    /\ events # <<>>
    /\ events[1].ev = "template"

IsIntTriple(b) ==
    /\ b.type = "tuple"
    /\ Len(b.items) = 3
    /\ \A i \in 1..3 : b.items[i].type = "int"

\* C7: None selects 'native' with no width sets, a dict selects 'non-uniform'
\* with that dict, a tuple of exactly 3 integers selects 'uniform' with that
\* tuple; with any other object the call ends with no workload file written
\* and no timeloop-mapper run.
C7_BitwidthsSelectSetting ==
    Dispatched =>
        /\ IsNone(call.bitwidths) =>
               /\ cw.called
               /\ cw.bitwidth_setting = "native"
               /\ IsNone(cw.uniform_width_set)
               /\ IsNone(cw.non_uniform_width_set)
        /\ call.bitwidths.type = "dict" =>
               /\ cw.called
               /\ cw.bitwidth_setting = "non-uniform"
               /\ IsNone(cw.uniform_width_set)
               /\ cw.non_uniform_width_set.type = "dict"
               /\ cw.non_uniform_width_set = call.bitwidths
        /\ IsIntTriple(call.bitwidths) =>
               /\ cw.called
               /\ cw.bitwidth_setting = "uniform"
               /\ cw.uniform_width_set.type = "tuple"
               /\ cw.uniform_width_set = call.bitwidths
               /\ IsNone(cw.non_uniform_width_set)
        /\ (/\ ~IsNone(call.bitwidths)
            /\ call.bitwidths.type # "dict"
            /\ ~IsIntTriple(call.bitwidths)) =>
               /\ ~cw.called
               /\ pc = "exited"
               /\ Written = <<>>
               /\ Invoked = <<>>

\* a call given a tuple with a non-integer has ended after its template
C7_Witness ==
    /\ Dispatched
    /\ call.bitwidths.type = "tuple"
    /\ Len(call.bitwidths.items) = 3
    /\ ~IsIntTriple(call.bitwidths)
    /\ pc = "exited"

\* C8: a get_hw_params_* call creates the template, then writes all its
\* workload files, then runs timeloop-mapper: every run comes after every
\* write, is for a file of the call's workload_shapes/<timestamp> folder, and
\* a call that wrote workload files has run timeloop-mapper when it ends.
C8_TemplateThenWorkloadsThenMapper ==
    (call.op \in GhOps /\ Over /\ cw.called /\ cw.how = "returned") =>
        /\ events[1].ev = "template"
        /\ \A i, j \in 1..Len(events) :
               (events[i].ev = "invoke" /\ events[j].ev # "invoke") => j < i
        /\ \A i \in 1..Len(Invoked) :
               DirName(AbsPath(Invoked[i].path)) = AbsPath(call.workloads)
        /\ Written # <<>> => Invoked # <<>>

\* a direct call of run_one_workload that found its mapper configuration and
\* whose timeloop-mapper run would succeed has ended
RunOneOver ==
    /\ call.op = "run_one_workload"
    /\ Over
    /\ MapperGlob(facade, call.threads, call.heuristic, call.metrics) # {}
    /\ call.tool.ok

\* C9: with clean=True run_one_workload returns with tmp_outputs and every
\* *.log file of the working directory deleted; with clean=False it returns
\* with tmp_outputs and the log files in place.
C9_CleanRemovesOutputs ==
    RunOneOver =>
        /\ pc = "returned"
        /\ call.clean => (TmpOutputs \notin dirs /\ GlobLog(DOMAIN fs) = {})
        /\ ~call.clean => (TmpOutputs \in dirs /\ GlobLog(DOMAIN fs) # {})

\* C10: run_one_workload returns a dictionary with the workload's base name,
\* the two metrics, 'Runtime [s]' and every column of the first row of the
\* statistics the run wrote, for verbose=True and for verbose=False.
C10_ReturnsMetricsAndStats ==
    RunOneOver =>
        /\ pc = "returned"
        /\ ret["Workload"] = BaseName(call.workload)
        /\ ret["Optimized_metric_1"] = call.metrics[1]
        /\ ret["Optimized_metric_2"] = call.metrics[2]
        /\ "Runtime [s]" \in DOMAIN ret
        /\ \A column \in DOMAIN call.tool.rows[1] : ret[column] = call.tool.rows[1][column]

IsTemplate(e) == e.ev = "template"

\* C11: get_hw_params_create_model with an api_choice other than 'keras' or
\* 'pytorch' raises ValueError with no template created, no workload file
\* written, construct_workloads not called and timeloop-mapper not run.
C11_UnknownApiRaisesFirst ==
    (/\ call.op = "get_hw_params_create_model"
     /\ call.api_choice \notin {"keras", "pytorch"}) =>
        /\ pc = "raised"
        /\ exc = "ValueError"
        /\ SelectSeq(events, IsTemplate) = <<>>
        /\ AbsPath(YamlModel(call.model)) \notin DOMAIN fs
        /\ ~cw.called
        /\ Written = <<>>
        /\ Invoked = <<>>

\* a call with api_choice 'tensorflow' has raised
C11_Witness ==
    /\ call.op = "get_hw_params_create_model"
    /\ call.api_choice = "tensorflow"
    /\ pc = "raised"
    /\ exc = "ValueError"

\* the fields of problem.instance lines 125-135 assign
RewrittenFields ==
    {"R", "S", "P", "Q", "C", "M", "N", "Wstride", "Hstride", "Wdilation", "Hdilation"}

\* the document differs from the template in nothing but the rewritten fields
\* of problem.instance and, outside the native setting, its bitwidths
FrameKept(template, doc, bitwidth_setting) ==
    LET free == IF bitwidth_setting \in {"uniform", "non-uniform"}
                THEN RewrittenFields \cup {"bitwidths"}
                ELSE RewrittenFields
        was == template.problem.instance
        is == doc.problem.instance
    IN /\ DOMAIN doc = DOMAIN template
       /\ \A k \in (DOMAIN template) \ {"problem"} : doc[k] = template[k]
       /\ DOMAIN doc.problem = DOMAIN template.problem
       /\ \A k \in (DOMAIN template.problem) \ {"instance"} :
              doc.problem[k] = template.problem[k]
       /\ (DOMAIN is) \ free = (DOMAIN was) \ free
       /\ \A k \in (DOMAIN was) \ free : is[k] = was[k]
       /\ RewrittenFields \subseteq DOMAIN is
       /\ is["Wdilation"] = 1
       /\ is["Hdilation"] = 1
       /\ bitwidth_setting \in {"uniform", "non-uniform"} => "bitwidths" \in DOMAIN is

\* C12: in every step the template file stays as it was, and every workload
\* file the step writes differs from the template only in the fields R, S, P,
\* Q, C, M, N, Wstride, Hstride, Wdilation, Hdilation (dilations 1) and, in
\* the uniform and non-uniform settings only, bitwidths.
C12_RewriteFrame ==
    [][/\ fs'[ConfigAbspath] = fs[ConfigAbspath]
       /\ \A k \in (Len(events) + 1)..Len(events') :
              events'[k].ev = "write" =>
                  FrameKept(fs[ConfigAbspath], fs'[events'[k].path], cw'.bitwidth_setting)]_vars

\* a call has written the files of two layers, in the native setting, from a
\* template that has a bitwidths entry
C12_Witness ==
    /\ cw.called
    /\ cw.how = "returned"
    /\ cw.bitwidth_setting = "native"
    /\ Len(Written) = 2
    /\ "bitwidths" \in DOMAIN fs[ConfigAbspath].problem.instance
    /\ \A k \in 1..2 :
           fs[Written[k].path].problem.instance["bitwidths"]
               = fs[ConfigAbspath].problem.instance["bitwidths"]

\* operation a is applied before operation b to the weights w
Before(w, a, b) == \E i, j \in 1..Len(w) : i < j /\ w[i] = a /\ w[j] = b

\* C13: in every path of the layer's call, with per_channel set the quantizer
\* gets the unfolded kernel and no folding comes before it; with per_channel
\* unset the kernel is folded first and the quantizer gets the folded weights.
C13_FoldQuantizeOrder ==
    call.op = "layer_call" =>
        /\ call.per_channel =>
               /\ ~Before(ret.weights, "fold", "quantize")
               /\ call.has_quantizer => (ret.weights # <<>> /\ ret.weights[1] = "quantize")
        /\ ~call.per_channel =>
               /\ ret.weights # <<>>
               /\ ret.weights[1] = "fold"
               /\ ~Before(ret.weights, "quantize", "fold")
               /\ call.has_quantizer => ret.weights = <<"fold", "quantize">>

\* training with frozen batch norm and per_channel: quantized, then folded
C13_Witness ==
    /\ call.op = "layer_call"
    /\ call.training
    /\ call.frozen
    /\ call.per_channel
    /\ call.has_quantizer
    /\ ret.weights = <<"quantize", "fold">>

====
